---- MODULE Spec2Model ----
(***************************************************************************)
(* Model of server.js: the Express handlers of the stock API over the      *)
(* Mongoose model Stock (./models/Stock) and the outbound quote request.   *)
(*                                                                         *)
(* Every handler is an async function: it runs synchronously up to an      *)
(* await, where it suspends while the database (or the quote service)      *)
(* performs the operation, and other handlers run in between.  The store   *)
(* performing an operation and the handler resuming with its result are    *)
(* separate steps: a handler answers from what the store returned earlier, *)
(* whatever was written since.                                             *)
(*                                                                         *)
(* An awaited operation of the store resolves or rejects (connection lost, *)
(* duplicate key, save of a removed document); a rejection reaches the     *)
(* catch block of the handler.                                             *)
(***************************************************************************)
EXTENDS Integers, Sequences, FiniteSets, Bags, TLC

----------------------------------------------------------------------------
(* Bounds of the model *)

\* handlers that may be suspended at an await at the same time
NumReqs == 2
\* requests received in one run
MaxRequests == 2
\* largest value of Date.now()
MaxClock == 1

----------------------------------------------------------------------------
(* Values *)

\* A JavaScript string is a sequence of characters; "" is <<>>.

\* symbols sent by clients: the same ticker in lower and in upper case
Symbols == {<<"a">>, <<"A">>}
\* the :symbol of a route, which the handler uppercases
Params  == {<<"a">>}
\* names sent by clients (the document of an earlier run has another)
Names   == {"N2"}
\* prices and changes; 0 is the falsy number
Nums    == {0, 1}

\* An optional value (a body field that may be undefined, a document that
\* may be null) is the empty set or a singleton.
None      == {}
Some(v)   == {v}
Has(o)    == o # {}
Val(o)    == CHOOSE v \in o : TRUE

\* String.prototype.toUpperCase on one character
UpperChar(c) == IF c = "a" THEN "A" ELSE c

RECURSIVE toUpperCase(_)
toUpperCase(s) ==
    IF s = <<>> THEN <<>>
    ELSE <<UpperChar(Head(s))>> \o toUpperCase(Tail(s))

\* JavaScript truthiness of an optional string: undefined and "" are falsy
TruthySym(o)  == Has(o) /\ Val(o) # <<>>
TruthyName(o) == Has(o) /\ Val(o) # ""

----------------------------------------------------------------------------
(* State *)

VARIABLES
    store,   \* the stocks collection: a set of documents
    clock,   \* the value the latest call of Date.now() returned
    nextId,  \* the next _id a new Stock(...) receives
    handlers,\* the suspended handlers: a bag of their local states
    last,    \* the most recent response sent
    received \* the number of requests received so far

vars == <<store, clock, nextId, handlers, last, received>>

\* A document of the collection
Doc(id, symbol, name, price, change, lastUpdated) ==
    [id |-> id, symbol |-> symbol, name |-> name, price |-> price,
     change |-> change, lastUpdated |-> lastUpdated]

\* fields of a request: body and route parameter
Req(method, symbol, name, price, change) ==
    [method |-> method, symbol |-> symbol, name |-> name, price |-> price,
     change |-> change]

NoReq == Req("NONE", None, None, None, None)

\* res.status(s).json(...): error is the error string, deleted the symbol of
\* the DELETE message, body the document(s) sent; logged is the exception the
\* catch block passed to console.error ("" when nothing was caught)
Resp(req, status, error, deleted, body, logged) ==
    [req |-> req, status |-> status, error |-> error, deleted |-> deleted,
     body |-> body, logged |-> logged]

NoResp == Resp(NoReq, 0, "", None, {}, "")

\* A suspended handler: at, the await it is suspended at; the request; the
\* locals symbol, name, price, change (destructured from the body or from
\* the quote); now, the value of Date.now() passed to findOneAndUpdate;
\* stock, the document it holds (for the GET of the list, the documents
\* read), with whether it is new and the paths assigned a changed value;
\* threw, the exception the awaited operation rejected with ("" when none)
Ctx(at, req, symbol, name, price, change, now, stock, isNew, modified, threw) ==
    [at |-> at, req |-> req, symbol |-> symbol, name |-> name, price |-> price,
     change |-> change, now |-> now, stock |-> stock, isNew |-> isNew,
     modified |-> modified, threw |-> threw]

----------------------------------------------------------------------------
(* Requests *)

\* POST bodies with every field present and the strings non-empty; the
\* price or the change is 0
FullBodies ==
    {Req("POST", Some(s), Some(n), Some(p), Some(1 - p)) :
        s \in Symbols, n \in Names, p \in Nums}

\* POST bodies with one field undefined, or one string empty
PartBodies ==
    LET full == Req("POST", Some(<<"A">>), Some("N2"), Some(0), Some(0))
    IN  {[full EXCEPT ![f] = None] : f \in {"symbol", "name", "price", "change"}}
        \cup {[full EXCEPT !.symbol = Some(<<>>)], [full EXCEPT !.name = Some("")]}

PostRequests == FullBodies \cup PartBodies

\* PUT requests: both fields present, or one undefined
PutRequests ==
    {Req("PUT", Some(s), None, Some(p), Some(c)) :
        s \in Params, p \in Nums, c \in Nums}
    \cup {Req("PUT", Some(<<"a">>), None, None, Some(0)),
          Req("PUT", Some(<<"a">>), None, Some(0), None)}

\* apiResponse.data of a successful quote request: the quoted price is the
\* stored one or not, the quoted change always differs from the stored 0
Quotes == [name : {"N2"}, price : Nums, change : {1}]

----------------------------------------------------------------------------
(* The Mongoose model Stock over the collection *)

SymbolsOf(st) == {d.symbol : d \in st}
Matching(st, symbol) == {d \in st : d.symbol = symbol}

\* the first document in insertion order among ds (ds nonempty)
First(ds) == CHOOSE d \in ds : \A e \in ds : d.id <= e.id

\* Stock.findOne({ symbol }): the matching document, or null
findOne(st, symbol) ==
    IF Matching(st, symbol) = {} THEN None ELSE Some(First(Matching(st, symbol)))

\* variant: the collection has no unique index on symbol
insertOneNoIndex(st, d) == [ok |-> TRUE, store |-> st \cup {d}]

\* insert of a new document: symbol is the key of the collection, so a
\* second document with a stored symbol is refused (duplicate key error)
insertOne(st, d) ==
    IF d.symbol \in SymbolsOf(st)
    THEN [ok |-> FALSE, store |-> st]
    ELSE [ok |-> TRUE, store |-> st \cup {d}]

\* doc.path = v on a loaded document: the path is marked modified only when
\* the value differs from the one the document holds
Assign(c, path, v) ==
    IF Val(c.stock)[path] = v THEN c
    ELSE [c EXCEPT !.stock = Some([Val(c.stock) EXCEPT ![path] = v]),
                   !.modified = @ \cup {path}]

\* the stored document d after $set of the modified paths of doc
SetModified(d, doc, modified) ==
    Doc(d.id, d.symbol, d.name,
        IF "price" \in modified THEN doc.price ELSE d.price,
        IF "change" \in modified THEN doc.change ELSE d.change,
        IF "lastUpdated" \in modified THEN doc.lastUpdated ELSE d.lastUpdated)

\* doc.save() of a loaded document: updateOne({_id}, {$set: modified paths});
\* matched tells whether the document was still in the collection
updateById(st, doc, modified) ==
    IF \E d \in st : d.id = doc.id
    THEN [matched |-> TRUE,
          store |-> {IF d.id = doc.id THEN SetModified(d, doc, modified) ELSE d
                     : d \in st}]
    ELSE [matched |-> FALSE, store |-> st]

\* Stock.findOneAndUpdate({symbol}, {price, change, lastUpdated}, {new: true}):
\* one atomic operation of the store, no upsert
findOneAndUpdate(st, symbol, price, change, lastUpdated) ==
    IF Matching(st, symbol) = {} THEN [doc |-> None, store |-> st]
    ELSE LET d == First(Matching(st, symbol))
             n == Doc(d.id, d.symbol, d.name, price, change, lastUpdated)
         IN  [doc |-> Some(n), store |-> (st \ {d}) \cup {n}]

\* Stock.findOneAndDelete({symbol}): one atomic operation of the store
findOneAndDelete(st, symbol) ==
    IF Matching(st, symbol) = {} THEN [doc |-> None, store |-> st]
    ELSE LET d == First(Matching(st, symbol))
         IN  [doc |-> Some(d), store |-> st \ {d}]

----------------------------------------------------------------------------
(* Steps shared by the two upserting handlers (POST, search) *)

\* variant: stock.price += price
UpdateFieldsAdd(c, now) ==
    Assign(Assign(Assign(c, "price", Val(c.stock).price + c.price),
                  "change", c.change),
           "lastUpdated", now)

\* if (stock) { stock.price = price; stock.change = change;
\*              stock.lastUpdated = Date.now(); }
UpdateFields(c, now) ==
    Assign(Assign(Assign(c, "price", c.price), "change", c.change),
           "lastUpdated", now)

\* stock = new Stock({ symbol, name, price, change }); lastUpdated is set to
\* the time of construction (the default of the schema)
NewStock(c, id, now) ==
    [c EXCEPT !.stock = Some(Doc(id, c.symbol, c.name, c.price, c.change, now)),
              !.isNew = TRUE]

\* an awaited operation of the store rejects when the connection is lost
Unavailable == "StoreUnavailable"

\* the outcomes of an awaited query whose result is r: it resolves with r, or
\* it rejects and leaves the store as it was
Outcomes(st, r) ==
    {[doc |-> r.doc, store |-> r.store, threw |-> ""],
     [doc |-> None, store |-> st, threw |-> Unavailable]}

\* the outcomes of await stock.save(): the store afterwards and the exception
\* thrown ("" when the promise resolves).  A save whose document was removed
\* meanwhile rejects (DocumentNotFoundError) or resolves, depending on the
\* Mongoose release.
SaveOutcomes(st, c) ==
    {[store |-> st, threw |-> Unavailable]} \cup
    IF c.isNew
    THEN LET r == insertOne(st, Val(c.stock))
         IN  {[store |-> r.store,
               threw |-> IF r.ok THEN "" ELSE "DuplicateKey"]}
    ELSE LET r == updateById(st, Val(c.stock), c.modified)
         IN  IF r.matched THEN {[store |-> r.store, threw |-> ""]}
             ELSE {[store |-> r.store, threw |-> t] :
                      t \in {"", "DocumentNotFound"}}

----------------------------------------------------------------------------
(* Requests arriving, handlers suspending and resuming *)

Suspended == BagToSet(handlers)

\* a request arrives
Receive ==
    /\ received < MaxRequests
    /\ BagCardinality(handlers) < NumReqs
    /\ received' = received + 1

\* Date.now(): the clock never runs backwards; between two calls it has
\* advanced or not
Now == clock .. MaxClock

\* a new handler suspends at its first await
Start(c) == handlers' = handlers (+) SetToBag({c})

\* the handler suspended as h is now suspended as c: it went on to its next
\* await, or the operation it awaits was performed
Suspend(h, c) == handlers' = (handlers (-) SetToBag({h})) (+) SetToBag({c})

\* handler h sends its response and ends
Finish(h, resp) ==
    /\ handlers' = handlers (-) SetToBag({h})
    /\ last' = resp

\* the local state of a handler that holds only its request
Bare(at, req, symbol) == Ctx(at, req, symbol, "", 0, 0, 0, None, FALSE, {}, "")

----------------------------------------------------------------------------
(* GET /api/stocks *)

\* up to the call of Stock.find()
GetStart ==
    /\ Receive
    /\ Start(Bare("find", Req("GET", None, None, None, None), <<>>))
    /\ UNCHANGED <<store, clock, nextId, last>>

\* the store performs the find: the handler will resume with the documents
\* read now
GetDb(h) ==
    /\ h \in Suspended
    /\ h.at = "find"
    /\ \E o \in Outcomes(store, [doc |-> store, store |-> store]) :
          Suspend(h, [h EXCEPT !.at = "listed", !.stock = o.doc,
                               !.threw = o.threw])
    /\ UNCHANGED <<store, clock, nextId, last, received>>

\* the handler resumes: res.json(stocks), or the catch block
GetReply(h) ==
    /\ h \in Suspended
    /\ h.at = "listed"
    /\ Finish(h, IF h.threw # ""
                 THEN Resp(h.req, 500, "Server error", None, {}, h.threw)
                 ELSE Resp(h.req, 200, "", None, h.stock, ""))
    /\ UNCHANGED <<store, clock, nextId, received>>

----------------------------------------------------------------------------
(* POST /api/stocks *)

\* variant: !symbol || !name || !price || !change
PostMissingFalsy(req) ==
    \/ ~TruthySym(req.symbol)
    \/ ~TruthyName(req.name)
    \/ ~Has(req.price) \/ Val(req.price) = 0
    \/ ~Has(req.change) \/ Val(req.change) = 0

\* !symbol || !name || price === undefined || change === undefined
PostMissing(req) ==
    \/ ~TruthySym(req.symbol)
    \/ ~TruthyName(req.name)
    \/ ~Has(req.price)
    \/ ~Has(req.change)

\* up to the call of Stock.findOne({ symbol })
PostStart ==
    /\ Receive
    /\ \E req \in PostRequests :
          IF PostMissing(req)
          THEN /\ last' = Resp(req, 400, "Missing required fields", None, {}, "")
               /\ UNCHANGED <<store, clock, nextId, handlers>>
          ELSE /\ Start(Ctx("findOne", req, Val(req.symbol), Val(req.name),
                            Val(req.price), Val(req.change), 0,
                            None, FALSE, {}, ""))
               /\ UNCHANGED <<store, clock, nextId, last>>

\* the store performs the findOne: the handler will resume with the document
\* found, with null, or with the rejection
PostFind(h) ==
    /\ h \in Suspended
    /\ h.at = "findOne"
    /\ h.req.method = "POST"
    /\ \E o \in Outcomes(store, [doc |-> findOne(store, h.symbol),
                                 store |-> store]) :
          Suspend(h, [h EXCEPT !.at = "found", !.stock = o.doc,
                               !.threw = o.threw])
    /\ UNCHANGED <<store, clock, nextId, last, received>>

\* the handler resumes after the findOne: up to the call of stock.save(), or
\* the catch block when the findOne rejected
PostResume(h) ==
    /\ h \in Suspended
    /\ h.at = "found"
    /\ h.req.method = "POST"
    /\ IF h.threw # ""
       THEN /\ Finish(h, Resp(h.req, 500, "Server error", None, {}, h.threw))
            /\ UNCHANGED <<clock, nextId>>
       ELSE /\ \E now \in Now :
                 /\ clock' = now
                 /\ IF Has(h.stock)
                    THEN /\ Suspend(h, [UpdateFields(h, now) EXCEPT !.at = "save"])
                         /\ UNCHANGED nextId
                    ELSE /\ Suspend(h, [NewStock(h, nextId, now)
                                           EXCEPT !.at = "save"])
                         /\ nextId' = nextId + 1
            /\ UNCHANGED last
    /\ UNCHANGED <<store, received>>

\* the store performs the save
PostSave(h) ==
    /\ h \in Suspended
    /\ h.at = "save"
    /\ h.req.method = "POST"
    /\ \E o \in SaveOutcomes(store, h) :
          /\ store' = o.store
          /\ Suspend(h, [h EXCEPT !.at = "saved", !.threw = o.threw])
    /\ UNCHANGED <<clock, nextId, last, received>>

\* the handler resumes after the save: res.json(stock),
\* res.status(201).json(stock), or the catch block
PostReply(h) ==
    /\ h \in Suspended
    /\ h.at = "saved"
    /\ h.req.method = "POST"
    /\ Finish(h, IF h.threw # ""
                 THEN Resp(h.req, 500, "Server error", None, {}, h.threw)
                 ELSE Resp(h.req, IF h.isNew THEN 201 ELSE 200,
                           "", None, h.stock, ""))
    /\ UNCHANGED <<store, clock, nextId, received>>

----------------------------------------------------------------------------
(* PUT /api/stocks/:symbol *)

\* price === undefined || change === undefined
PutMissing(req) == ~Has(req.price) \/ ~Has(req.change)

\* up to the call of Stock.findOneAndUpdate, whose arguments (the uppercased
\* symbol, Date.now()) are evaluated here
PutStart ==
    /\ Receive
    /\ \E req \in PutRequests :
          IF PutMissing(req)
          THEN /\ last' = Resp(req, 400, "Missing price or change fields",
                               None, {}, "")
               /\ UNCHANGED <<store, clock, nextId, handlers>>
          ELSE /\ \E now \in Now :
                    /\ clock' = now
                    /\ Start(Ctx("update", req, toUpperCase(Val(req.symbol)),
                                 "", Val(req.price), Val(req.change), now,
                                 None, FALSE, {}, ""))
               /\ UNCHANGED <<store, nextId, last>>

\* variant: findOneAndUpdate with { upsert: true }
PutDbUpsert(h) ==
    /\ h \in Suspended
    /\ h.at = "update"
    /\ LET r == findOneAndUpdate(store, h.symbol, h.price, h.change, h.now)
           n == Doc(nextId, h.symbol, "", h.price, h.change, h.now)
       IN  IF Has(r.doc)
           THEN /\ store' = r.store
                /\ Suspend(h, [h EXCEPT !.at = "updated", !.stock = r.doc])
                /\ UNCHANGED nextId
           ELSE /\ store' = store \cup {n}
                /\ Suspend(h, [h EXCEPT !.at = "updated", !.stock = Some(n)])
                /\ nextId' = nextId + 1
    /\ UNCHANGED <<clock, last, received>>

\* the store performs the findOneAndUpdate: the handler will resume with the
\* updated document, with null, or with the rejection
PutDb(h) ==
    /\ h \in Suspended
    /\ h.at = "update"
    /\ \E o \in Outcomes(store, findOneAndUpdate(store, h.symbol, h.price,
                                                 h.change, h.now)) :
          /\ store' = o.store
          /\ Suspend(h, [h EXCEPT !.at = "updated", !.stock = o.doc,
                                  !.threw = o.threw])
    /\ UNCHANGED <<clock, nextId, last, received>>

\* the handler resumes: 404, res.json(stock), or the catch block
PutReply(h) ==
    /\ h \in Suspended
    /\ h.at = "updated"
    /\ Finish(h, IF h.threw # ""
                 THEN Resp(h.req, 500, "Server error", None, {}, h.threw)
                 ELSE IF Has(h.stock)
                 THEN Resp(h.req, 200, "", None, h.stock, "")
                 ELSE Resp(h.req, 404, "Stock not found", None, {}, ""))
    /\ UNCHANGED <<store, clock, nextId, received>>

----------------------------------------------------------------------------
(* DELETE /api/stocks/:symbol *)

\* up to the call of Stock.findOneAndDelete, whose argument (the uppercased
\* symbol) is evaluated here
DeleteStart ==
    /\ Receive
    /\ \E symbol \in Params :
          Start(Bare("delete", Req("DELETE", Some(symbol), None, None, None),
                     toUpperCase(symbol)))
    /\ UNCHANGED <<store, clock, nextId, last>>

\* variant: Stock.findOne in place of Stock.findOneAndDelete
DeleteDbKeep(h) ==
    /\ h \in Suspended
    /\ h.at = "delete"
    /\ Suspend(h, [h EXCEPT !.at = "deleted",
                            !.stock = findOne(store, h.symbol)])
    /\ UNCHANGED <<store, clock, nextId, last, received>>

\* the store performs the findOneAndDelete: the handler will resume with the
\* removed document, with null, or with the rejection
DeleteDb(h) ==
    /\ h \in Suspended
    /\ h.at = "delete"
    /\ \E o \in Outcomes(store, findOneAndDelete(store, h.symbol)) :
          /\ store' = o.store
          /\ Suspend(h, [h EXCEPT !.at = "deleted", !.stock = o.doc,
                                  !.threw = o.threw])
    /\ UNCHANGED <<clock, nextId, last, received>>

\* the handler resumes: 404, the message naming the uppercased symbol, or the
\* catch block
DeleteReply(h) ==
    /\ h \in Suspended
    /\ h.at = "deleted"
    /\ Finish(h, IF h.threw # ""
                 THEN Resp(h.req, 500, "Server error", None, {}, h.threw)
                 ELSE IF Has(h.stock)
                 THEN Resp(h.req, 200, "",
                           Some(toUpperCase(Val(h.req.symbol))), {}, "")
                 ELSE Resp(h.req, 404, "Stock not found", None, {}, ""))
    /\ UNCHANGED <<store, clock, nextId, received>>

----------------------------------------------------------------------------
(* GET /api/search/:symbol *)

\* up to the call of axios.get
SearchStart ==
    /\ Receive
    /\ \E symbol \in Params :
          Start(Bare("fetch", Req("SEARCH", Some(symbol), None, None, None),
                     toUpperCase(symbol)))
    /\ UNCHANGED <<store, clock, nextId, last>>

\* variant: the catch block answers 404 "Stock not found"
SearchFail404(h) ==
    /\ h \in Suspended
    /\ h.at = "fetch"
    /\ Finish(h, Resp(h.req, 404, "Stock not found", None, {}, "RequestFailed"))
    /\ UNCHANGED <<store, clock, nextId, received>>

\* the quote request fails (network error, timeout, non-2xx): catch block
SearchFail(h) ==
    /\ h \in Suspended
    /\ h.at = "fetch"
    /\ Finish(h, Resp(h.req, 500, "Stock not found or API error", None, {},
                      "RequestFailed"))
    /\ UNCHANGED <<store, clock, nextId, received>>

\* the quote request succeeds: the handler resumes with apiResponse.data, up
\* to the call of Stock.findOne({ symbol })
SearchOk(h) ==
    /\ h \in Suspended
    /\ h.at = "fetch"
    /\ \E data \in Quotes :
          Suspend(h, [h EXCEPT !.at = "findOne", !.name = data.name,
                               !.price = data.price, !.change = data.change])
    /\ UNCHANGED <<store, clock, nextId, last, received>>

\* the store performs the findOne: the handler will resume with the document
\* found, with null, or with the rejection
SearchFind(h) ==
    /\ h \in Suspended
    /\ h.at = "findOne"
    /\ h.req.method = "SEARCH"
    /\ \E o \in Outcomes(store, [doc |-> findOne(store, h.symbol),
                                 store |-> store]) :
          Suspend(h, [h EXCEPT !.at = "found", !.stock = o.doc,
                               !.threw = o.threw])
    /\ UNCHANGED <<store, clock, nextId, last, received>>

\* the handler resumes after the findOne: up to the call of stock.save(), or
\* the catch block when the findOne rejected
SearchResume(h) ==
    /\ h \in Suspended
    /\ h.at = "found"
    /\ h.req.method = "SEARCH"
    /\ IF h.threw # ""
       THEN /\ Finish(h, Resp(h.req, 500, "Stock not found or API error",
                              None, {}, h.threw))
            /\ UNCHANGED <<clock, nextId>>
       ELSE /\ \E now \in Now :
                 /\ clock' = now
                 /\ IF Has(h.stock)
                    THEN /\ Suspend(h, [UpdateFields(h, now) EXCEPT !.at = "save"])
                         /\ UNCHANGED nextId
                    ELSE /\ Suspend(h, [NewStock(h, nextId, now)
                                           EXCEPT !.at = "save"])
                         /\ nextId' = nextId + 1
            /\ UNCHANGED last
    /\ UNCHANGED <<store, received>>

\* the store performs the save
SearchSave(h) ==
    /\ h \in Suspended
    /\ h.at = "save"
    /\ h.req.method = "SEARCH"
    /\ \E o \in SaveOutcomes(store, h) :
          /\ store' = o.store
          /\ Suspend(h, [h EXCEPT !.at = "saved", !.threw = o.threw])
    /\ UNCHANGED <<clock, nextId, last, received>>

\* the handler resumes after the save: res.json(stock), or the catch block
SearchReply(h) ==
    /\ h \in Suspended
    /\ h.at = "saved"
    /\ h.req.method = "SEARCH"
    /\ Finish(h, IF h.threw # ""
                 THEN Resp(h.req, 500, "Stock not found or API error",
                           None, {}, h.threw)
                 ELSE Resp(h.req, 200, "", None, h.stock, ""))
    /\ UNCHANGED <<store, clock, nextId, received>>

----------------------------------------------------------------------------
(* GET of any other path: the page of the frontend *)

\* up to the call of res.sendFile
PageStart ==
    /\ Receive
    /\ Start(Bare("sendFile", Req("PAGE", None, None, None, None), <<>>))
    /\ UNCHANGED <<store, clock, nextId, last>>

\* index.html is sent, or the callback of sendFile answers 500 with the text
\* 'Frontend build not found. ...'
PageSend(h) ==
    /\ h \in Suspended
    /\ h.at = "sendFile"
    /\ \E built \in BOOLEAN :
          Finish(h, IF built
                    THEN Resp(h.req, 200, "", None, {}, "")
                    ELSE Resp(h.req, 500, "Frontend build not found", None, {},
                              ""))
    /\ UNCHANGED <<store, clock, nextId, received>>

----------------------------------------------------------------------------
(* The specifications *)

\* The collection outlives the server: at start it is empty, or holds a
\* document an earlier run of the server stored (POST of A at time 0).
Persisted == {{}, {Doc(1, <<"A">>, "N1", 0, 0, 0)}}

Init ==
    /\ store \in Persisted
    /\ clock = 0
    /\ nextId = Cardinality(store) + 1
    /\ handlers = EmptyBag
    /\ last = NoResp
    /\ received = 0

Next ==
    \/ GetStart
    \/ \E h \in Suspended : GetDb(h)
    \/ \E h \in Suspended : GetReply(h)
    \/ PostStart
    \/ \E h \in Suspended : PostFind(h)
    \/ \E h \in Suspended : PostResume(h)
    \/ \E h \in Suspended : PostSave(h)
    \/ \E h \in Suspended : PostReply(h)
    \/ PutStart
    \/ \E h \in Suspended : PutDb(h)
    \/ \E h \in Suspended : PutReply(h)
    \/ DeleteStart
    \/ \E h \in Suspended : DeleteDb(h)
    \/ \E h \in Suspended : DeleteReply(h)
    \/ SearchStart
    \/ \E h \in Suspended : SearchFail(h)
    \/ \E h \in Suspended : SearchOk(h)
    \/ \E h \in Suspended : SearchFind(h)
    \/ \E h \in Suspended : SearchResume(h)
    \/ \E h \in Suspended : SearchSave(h)
    \/ \E h \in Suspended : SearchReply(h)
    \/ PageStart
    \/ \E h \in Suspended : PageSend(h)

Spec == Init /\ [][Next]_vars

\* Requests one at a time: a request is received only when no handler is
\* suspended.
Quiet == handlers = EmptyBag

SeqNext ==
    \/ Quiet /\ GetStart
    \/ \E h \in Suspended : GetDb(h)
    \/ \E h \in Suspended : GetReply(h)
    \/ Quiet /\ PostStart
    \/ \E h \in Suspended : PostFind(h)
    \/ \E h \in Suspended : PostResume(h)
    \/ \E h \in Suspended : PostSave(h)
    \/ \E h \in Suspended : PostReply(h)
    \/ Quiet /\ PutStart
    \/ \E h \in Suspended : PutDb(h)
    \/ \E h \in Suspended : PutReply(h)
    \/ Quiet /\ DeleteStart
    \/ \E h \in Suspended : DeleteDb(h)
    \/ \E h \in Suspended : DeleteReply(h)
    \/ Quiet /\ SearchStart
    \/ \E h \in Suspended : SearchFail(h)
    \/ \E h \in Suspended : SearchOk(h)
    \/ \E h \in Suspended : SearchFind(h)
    \/ \E h \in Suspended : SearchResume(h)
    \/ \E h \in Suspended : SearchSave(h)
    \/ \E h \in Suspended : SearchReply(h)
    \/ Quiet /\ PageStart
    \/ \E h \in Suspended : PageSend(h)

SeqSpec == Init /\ [][SeqNext]_vars

----------------------------------------------------------------------------
(* Properties *)

\* the step is handler h sending its response and ending
Ends(h) == h \in Suspended /\ handlers' = handlers (-) SetToBag({h})

\* the step is the handler suspended as h going on, suspended as c: the store
\* performed the operation it awaits, or it ran on to its next await
Goes(h, c) ==
    /\ h \in Suspended
    /\ c # h
    /\ handlers' = (handlers (-) SetToBag({h})) (+) SetToBag({c})

\* the step is handler h going on, or the operation it awaits being performed
Moves(h) == h \in Suspended /\ CopiesIn(h, handlers') < CopiesIn(h, handlers)

\* the step is a request answered without suspending; last' is the answer
Answered == received' # received /\ handlers' = handlers

\* the symbols PUT, DELETE and search look up
UpperSymbols == {toUpperCase(s) : s \in Params}

\* a collection without its timestamps
Strip(st) == {[d EXCEPT !.lastUpdated = 0] : d \in st}

\* one of the fields is undefined in the request
Undefined(req, fields) == \E f \in fields : req[f] = None

\* the fields POST and PUT require
Required(req) ==
    IF req.method = "POST" THEN {"symbol", "name", "price", "change"}
    ELSE IF req.method = "PUT" THEN {"price", "change"}
    ELSE {}

\* the step is the store performing the insert of a new document with symbol
\* S for a POST or search handler
Inserts(S) ==
    \E h \in Suspended, c \in BagToSet(handlers') :
        /\ Goes(h, c)
        /\ h.at = "save" /\ h.isNew /\ c.threw = ""
        /\ h.req.method \in {"POST", "SEARCH"}
        /\ Val(h.stock).symbol = S

\* C1: in every reachable state, whatever the interleaving of the handlers,
\* no two documents of the store have the same symbol.
SymbolUnique ==
    \A d \in store, e \in store : d.symbol = e.symbol => d = e

\* a handler that found no document lost the race: its insert was refused
C1Witness ==
    /\ last.logged = "DuplicateKey"
    /\ \E d \in store : d.symbol \in {Val(last.req.symbol),
                                      toUpperCase(Val(last.req.symbol))}

\* C2: every document of the store has a symbol equal to its own uppercase
\* form, also a document created by POST from a lowercase symbol.
SymbolUppercase ==
    \A d \in store : d.symbol = toUpperCase(d.symbol)

\* C3: a POST that found a document with its symbol and saved it (requests
\* one at a time) answers 200 with the updated document, which the store
\* holds with the name, price and change of the request.
UpsertOverwrites ==
    [][\A h \in Suspended :
          (h.req.method = "POST" /\ h.at = "saved" /\ ~h.isNew /\ h.threw = ""
              /\ Ends(h))
          => /\ last'.status = 200
             /\ \E d \in store' :
                   /\ d.symbol = Val(h.req.symbol)
                   /\ d.name = Val(h.req.name)
                   /\ d.price = Val(h.req.price)
                   /\ d.change = Val(h.req.change)
                   /\ d.lastUpdated = Val(h.stock).lastUpdated
                   /\ last'.body = {d}]_vars

\* C4: with requests one at a time, the save of a POST that directly follows
\* the same POST (answered 200 or 201) leaves the store as it was but for
\* lastUpdated; the POST then answers 200 and exactly one document has its
\* symbol.
PostIdempotent ==
    [][\A h \in Suspended :
          (h.req.method = "POST" /\ last.req = h.req
              /\ last.status \in {200, 201})
          => /\ \A c \in BagToSet(handlers') :
                   (Goes(h, c) /\ h.at = "save")
                   => Strip(store') = Strip(store)
             /\ (Ends(h) /\ h.at = "saved" /\ h.threw = "")
                => /\ last'.status = 200
                   /\ store' = store
                   /\ Cardinality(Matching(store', Val(h.req.symbol))) = 1]_vars

\* the first POST created the document, the same POST found it and saved
C4Witness ==
    \E h \in Suspended :
        /\ h.req.method = "POST" /\ h.at = "saved" /\ ~h.isNew /\ h.threw = ""
        /\ last.req = h.req /\ last.status = 201

\* C5: the findOneAndUpdate of a PUT adds no symbol to the store; run when no
\* document has the uppercased symbol it leaves the store as it was and
\* returns null, and a PUT that was returned null answers 404 "Stock not
\* found" and writes nothing.
PutAbsent ==
    [][\A h \in Suspended :
          h.req.method = "PUT"
          => /\ \A c \in BagToSet(handlers') :
                   (Goes(h, c) /\ h.at = "update")
                   => /\ SymbolsOf(store') = SymbolsOf(store)
                      /\ toUpperCase(Val(h.req.symbol)) \notin SymbolsOf(store)
                         => /\ store' = store
                            /\ c.stock = None
             /\ (Ends(h) /\ h.at = "updated" /\ h.threw = "" /\ h.stock = None)
                => /\ last'.status = 404
                   /\ last'.error = "Stock not found"
                   /\ store' = store]_vars

C5Witness ==
    /\ last.req.method = "PUT"
    /\ last.status = 404
    /\ toUpperCase(Val(last.req.symbol)) \notin SymbolsOf(store)

\* C6, as stated: when a DELETE answers 200 for S, no document has symbol S;
\* S comes back only by the insert of a POST or search handler; while S is
\* absent a GET /api/stocks that answers returns no S and a PUT of S that
\* answers, answers 404.
AbsentAfterDeleteAnswer ==
    [][\A S \in UpperSymbols :
          /\ \A h \in Suspended :
                (h.req.method = "DELETE" /\ Ends(h) /\ last'.status = 200
                    /\ h.symbol = S)
                => S \notin SymbolsOf(store')
          /\ (S \notin SymbolsOf(store) /\ S \in SymbolsOf(store'))
             => Inserts(S)
          /\ \A h \in Suspended :
                (h.req.method = "GET" /\ Ends(h) /\ last'.status = 200
                    /\ S \notin SymbolsOf(store))
                => S \notin SymbolsOf(last'.body)
          /\ \A h \in Suspended :
                (h.req.method = "PUT" /\ Ends(h) /\ h.threw = ""
                    /\ h.symbol = S /\ S \notin SymbolsOf(store))
                => last'.status = 404]_vars

\* C6, amended: a DELETE answers 200 for S only after its findOneAndDelete
\* removed the document with symbol S; from that removal on S is absent until
\* the insert of a POST or search handler, which may come before the 200 is
\* sent; a find run meanwhile returns the store, hence no S, and is what the
\* GET answers with; a findOneAndUpdate of S run meanwhile returns null, and
\* the PUT answers 404.
DeletedUntilRecreated ==
    [][\A S \in UpperSymbols :
          /\ \A h \in Suspended :
                /\ (h.req.method = "DELETE" /\ Ends(h) /\ last'.status = 200)
                   => /\ h.threw = "" /\ Has(h.stock)
                      /\ last'.deleted = Some(h.symbol)
                /\ (h.req.method = "GET" /\ Ends(h) /\ last'.status = 200)
                   => last'.body = h.stock
                /\ (h.req.method = "PUT" /\ Ends(h) /\ h.threw = ""
                       /\ h.stock = None)
                   => last'.status = 404
          /\ \A h \in Suspended, c \in BagToSet(handlers') :
                /\ (Goes(h, c) /\ h.at = "delete" /\ h.symbol = S
                       /\ c.threw = "")
                   => /\ S \notin SymbolsOf(store')
                      /\ Has(c.stock) <=> S \in SymbolsOf(store)
                /\ (Goes(h, c) /\ h.at = "find" /\ c.threw = "")
                   => c.stock = store
                /\ (Goes(h, c) /\ h.at = "update" /\ h.symbol = S
                       /\ S \notin SymbolsOf(store) /\ c.threw = "")
                   => c.stock = None
          /\ (S \notin SymbolsOf(store) /\ S \in SymbolsOf(store'))
             => Inserts(S)]_vars

\* the DELETE removed S and answered 200, and S has not been stored again
C6Witness ==
    /\ last.req.method = "DELETE"
    /\ last.status = 200
    /\ last.deleted = Some(toUpperCase(Val(last.req.symbol)))
    /\ Val(last.deleted) \notin SymbolsOf(store)

\* C7: every step that changes a document leaves its lastUpdated strictly
\* greater than before.
LastUpdatedIncreases ==
    [][\A d \in store, e \in store' :
          (d.id = e.id /\ e # d) => e.lastUpdated > d.lastUpdated]_vars

\* C8: when the write of a request to an existing document completes (the
\* save of a POST or search update, the findOneAndUpdate of a PUT), the
\* document holds the price and the change of that request.
LastWriteWins ==
    [][\A h \in Suspended, c \in BagToSet(handlers') :
          (Goes(h, c) /\ h.at \in {"save", "update"} /\ ~h.isNew
              /\ c.threw = ""
              /\ IF h.at = "save"
                 THEN \E d \in store : d.id = Val(h.stock).id
                 ELSE h.symbol \in SymbolsOf(store))
          => \E e \in store' :
                e.symbol = h.symbol /\ e.price = h.price /\ e.change = h.change]_vars

\* C9: a POST with symbol, name, price or change undefined and a PUT with
\* price or change undefined are answered 400 with an error and leave the
\* store as it was, and no handler goes on with such a request; a request
\* answered 400 has an undefined field or an empty string, so that a price
\* or change of 0 is not rejected.
ValidationRejects ==
    [][/\ (Answered /\ Undefined(last'.req, Required(last'.req)))
          => /\ last'.status = 400
             /\ last'.error # ""
             /\ store' = store
       /\ (last'.status = 400 /\ last' # last)
          => /\ Answered
             /\ \/ Undefined(last'.req, Required(last'.req))
                \/ last'.req.symbol = Some(<<>>)
                \/ last'.req.name = Some("")
       /\ \A h \in BagToSet(handlers') :
             ~Undefined(h.req, Required(h.req))]_vars

C9Witness ==
    /\ last.req.method = "POST"
    /\ last.status = 400
    /\ last.req.price = None
    /\ \E h \in Suspended : h.req.method = "PUT" /\ h.price = 0

\* C10: a search handler whose quote request fails answers 500 "Stock not
\* found or API error" and ends without another request; it writes nothing
\* to the store before its quote request has succeeded.
SearchFailure ==
    [][\A h \in Suspended :
          (h.req.method = "SEARCH" /\ Moves(h))
          => /\ h.at \in {"fetch", "findOne", "found"} => store' = store
             /\ (h.at = "fetch" /\ Ends(h))
                => /\ last'.status = 500
                   /\ last'.error = "Stock not found or API error"
                   /\ last'.body = {}
             /\ (h.at = "fetch" /\ ~Ends(h))
                => \E c \in BagToSet(handlers') :
                      c.at = "findOne" /\ c.req = h.req]_vars

C10Witness ==
    /\ last.req.method = "SEARCH"
    /\ last.logged = "RequestFailed"
    /\ last.status = 500

====
